---------------------------- MODULE Spec2Model ----------------------------
(***************************************************************************)
(* Seizure_Detector (seizure_detector.ino): the timer-driven sampler, the  *)
(* hand-off of the capture buffer to loop(), and the alarm logic of        *)
(* loop().                                                                 *)
(*                                                                         *)
(* Time.  The timer interrupt fires at a fixed rate, so the model lets one *)
(* interrupt be one unit of time: millis() advances by one unit per tick.  *)
(* A unit is MsPerUnit milliseconds, a window is FFT_N ticks, and the      *)
(* durations of the sketch are converted to units.  The millisecond clock  *)
(* is an unsigned counter of ClockBits bits (32 on the target).            *)
(***************************************************************************)
EXTENDS Integers, Sequences, FiniteSets

(***************************************************************************)
(* Bounds of the model.                                                    *)
(***************************************************************************)
\* samples per window (ffft.h sets 128 on the target)
FFT_N == 4
\* width of the millisecond counter (32 on the target)
ClockBits == 7
\* timer ticks in one run in which loop() keeps up with the sampler
MaxTicks == 21
\* timer ticks that may fall into one pass of loop() in such a run
MaxLag == 1
\* timer ticks in one run in which loop() may be arbitrarily slow
FreeTicks == 10
\* how long before the counter rolls over a run may start
WrapLead == 6
\* timer ticks in one run that follows an event through a second exceedance
LongTicks == 28
\* timer ticks for which a run whose timer never stops follows the time
LiveTicks == 6

ClockMod == 2 ^ ClockBits
\* milliseconds in one unit of model time: two ticks a second
MsPerUnit == 1000 \div 2

(***************************************************************************)
(* Settings of the sketch.                                                 *)
(***************************************************************************)
mon_freq_ch_min == 6
mon_freq_ch_max == 10
mon_thresh == 7
mon_warn_millis == 2000 \div MsPerUnit
mon_alarm_millis == 5000 \div MsPerUnit
mon_reset_millis == 2000 \div MsPerUnit
log_millis == 60000 \div MsPerUnit

VARIABLES
  \* ---- the sketch's globals
  position,              \* volatile byte position
  capture,               \* int16_t capture[FFT_N]
  bfly_buff,             \* complex_t bfly_buff[FFT_N]: the transform's input
  spectrum,              \* uint16_t spectrum[FFT_N/2], the bins around the band
  mon_thresh_exceeded,
  mon_warn_state,
  mon_alarm_state,
  mon_lastreset_millis,
  mon_thresh_millis,
  last_log_millis,
  \* ---- loop(): where it is, and its loop index
  pc,
  i,
  \* ---- the devices
  clock,                 \* what millis() returns
  rtc,                   \* what now() returns
  toneState,             \* the buzzer: "silent", "pip", "continuous"
  logfileOpen,           \* logfile.isOpen()
  logtag,                \* the level tag of the record being written
  logline,               \* the values written after "RAW:" in that record
  cardOk,                \* Fat16::init(&sdCard) succeeded in setup()
  \* ---- history, read by the properties only
  mode,                  \* the run's timing: "prompt", "long", "free", "live"
  ticks,                 \* timer interrupts so far
  lag,                   \* timer interrupts since loop() saw the buffer full
  accepted,              \* samples stored since the last reset of position
  dropped,               \* interrupts that found the buffer full since then
  lastWrite,             \* index of the interrupt's last store, -1 if none
  lastRead,              \* loop()'s last read of capture[]: by whom, position then
  win,                   \* the last window the alarm logic evaluated
  threshAt,              \* ticks when mon_thresh_millis was last set
  fromIdle,              \* no warning or alarm was on when it was set
  dropAt,                \* ticks when the band last fell below the threshold
  scen,                  \* progress of the [3, 9, 9, 9] scenario
  lost,                  \* interrupts dropped during the current pass of loop()
  overrun,               \* more than FFT_N interrupts fell into the last pass
  pending,               \* buffer fills that the alarm rule has not evaluated yet
  logAt                  \* ticks when last_log_millis was last set

prog == <<position, capture, bfly_buff, spectrum, mon_thresh_exceeded,
          mon_warn_state, mon_alarm_state, mon_lastreset_millis,
          mon_thresh_millis, last_log_millis, pc, i>>
devs == <<clock, rtc, toneState, logfileOpen, logtag, logline, cardOk>>
hist == <<mode, ticks, lag, accepted, dropped, lastWrite, lastRead, win, threshAt,
          fromIdle, dropAt, scen, lost, overrun, pending, logAt>>
vars == <<prog, devs, hist>>

(***************************************************************************)
(* Arithmetic of the target.                                               *)
(***************************************************************************)
\* unsigned long subtraction and addition
USub_Signed(a, b) == a - b
USub(a, b) == (a - b) % ClockMod
UAdd(a, b) == (a + b) % ClockMod
\* uint16_t -> int, and int -> unsigned int (16 bits on the AVR)
ToInt16(v) == IF v >= 32768 THEN v - 65536 ELSE v
ToUint16(x) == x % 65536

(***************************************************************************)
(* The environment: the sensor and the transform.                          *)
(***************************************************************************)
\* (x+y+z)/3 of the three analogRead()s at a tick.  The signal carries the
\* tick's time, so each sample of a window is told apart from the others.
analogMean(t) == t
Buf == 0 .. (FFT_N - 1)
ZeroBuf == [k \in Buf |-> 0]
\* the bins the model keeps: the monitored band and one bin on each side
Bins == (mon_freq_ch_min - 1) .. (mon_freq_ch_max + 1)
Spike(b, v) == [k \in Bins |-> IF k = b THEN v ELSE 0]
ZeroSpectrum == [k \in Bins |-> 0]
\* what fft_output may deliver
Spectra == { Spike(mon_freq_ch_min, 3), Spike(mon_freq_ch_min, mon_thresh),
             Spike(mon_freq_ch_max, 9), Spike(mon_freq_ch_min - 1, 9),
             Spike(mon_freq_ch_max + 1, 9) }
\* a bin above the range of a 16-bit signed int
LoudSpectra == { Spike(mon_freq_ch_min + 1, 40000) }
\* a band energy below the threshold and one above it
EventSpectra == { Spike(mon_freq_ch_min, 3), Spike(mon_freq_ch_max, 9) }
\* what fft_output may deliver in a run of timing m
SpectraIn(m) ==
  IF m = "free" THEN Spectra \cup LoudSpectra
  ELSE IF m = "live" THEN EventSpectra
  ELSE Spectra

(***************************************************************************)
(* Pure parts of loop() and of the interrupt routine.                      *)
(***************************************************************************)
\* ISR: if (position >= FFT_N) return;
BufferFull_NoGuard(p) == FALSE
BufferFull_OffByOne(p) == p > FFT_N
BufferFull(p) == p >= FFT_N

\* loop(): if (position == FFT_N)
WindowReady_NotEmpty(p) == p > 0
WindowReady(p) == p = FFT_N

\* error_P(): reports, and returns to its caller, which goes on to where
\* it was going ("Don't stop just because we can't get to the SD card")
error_P_Halt(goingTo) == "halt"
error_P(goingTo) == goingTo

\* fft_input: the sample copied into slot k of the transform's input
FftInputSlot_Rotated(buf, k) == buf[(k + 1) % FFT_N]
FftInputSlot(buf, k) == buf[k]

\* maxChan = spectrum[min]; for (i=min; i<=max; i++) if (spectrum[i]>maxChan) ...
\* maxChan is an int: the comparison is unsigned, the store converts.
RECURSIVE MaxChanFrom(_, _, _)
MaxChanFrom(s, k, m) ==
  IF k > mon_freq_ch_max THEN m
  ELSE MaxChanFrom(s, k + 1, IF s[k] > ToUint16(m) THEN ToInt16(s[k]) ELSE m)
MaxChan(s) == MaxChanFrom(s, mon_freq_ch_min, ToInt16(s[mon_freq_ch_min]))

\* if ((maxChan>=mon_thresh))
Exceeds(maxChan) == maxChan >= mon_thresh

\* if (!mon_thresh_exceeded): an exceeded window begins a new event
NewEvent_Never(exceeded) == FALSE
NewEvent(exceeded) == ~exceeded

\* the two escalation tests, on elapsed = millis() - mon_thresh_millis
AlarmDue_WarnLimit(elapsed) == elapsed >= mon_warn_millis
AlarmDue(elapsed) == elapsed >= mon_alarm_millis
WarnDue_Strict(elapsed) == elapsed > mon_warn_millis
WarnDue(elapsed) == elapsed >= mon_warn_millis
\* the flags after an exceeded window
NextAlarmState(elapsed, alarm) == IF AlarmDue(elapsed) THEN TRUE ELSE alarm
NextWarnState(elapsed, warn) ==
  IF AlarmDue(elapsed) THEN FALSE
  ELSE IF WarnDue(elapsed) THEN TRUE ELSE warn

\* else if (millis()-mon_lastreset_millis > mon_reset_millis)
ResetDue(t, lastreset) == USub(t, lastreset) > mon_reset_millis

\* if (mon_thresh_exceeded || (millis()>(last_log_millis +log_millis)))
LogDue(exceeded, t, lastlog) == exceeded \/ t > UAdd(lastlog, log_millis)

\* the level tag of a record
LogTag(exceeded, warn, alarm) ==
  IF warn THEN "warning"
  ELSE IF alarm THEN "*ALARM*"
  ELSE IF exceeded THEN "poss" ELSE ""

\* if (mon_warn_state) tone(pin,200,100); if (mon_alarm_state) tone(pin,100);
ToneAfter_PipLast(warn, alarm, tone) ==
  IF warn THEN "pip" ELSE IF alarm THEN "continuous" ELSE tone
ToneAfter_PipUnlessAlarm(warn, alarm, tone) ==
  IF alarm THEN "continuous" ELSE "pip"
ToneAfter(warn, alarm, tone) ==
  IF alarm THEN "continuous" ELSE IF warn THEN "pip" ELSE tone


(***************************************************************************)
(* What the properties read off the state and record as history.           *)
(***************************************************************************)
\* the level the three flags stand for
LevelOf(exceeded, warn, alarm) ==
  IF warn /\ alarm THEN "Warning+Alarm"
  ELSE IF alarm THEN "Alarm"
  ELSE IF warn THEN "Warning"
  ELSE IF exceeded THEN "PreAlarm" ELSE "Idle"
Level == LevelOf(mon_thresh_exceeded, mon_warn_state, mon_alarm_state)
\* the level the escalation rule gives for an elapsed time
LevelFor(elapsed) ==
  IF elapsed >= mon_alarm_millis THEN "Alarm"
  ELSE IF elapsed >= mon_warn_millis THEN "Warning" ELSE "PreAlarm"

\* the [3, 9, 9, 9] scenario: a window of band energy 3 evaluated in Idle,
\* then windows of band energy 9, each 2000 ms after the one before
WindowUnits == 2000 \div MsPerUnit
ScenStep(s, lastAt, idle, e, t) ==
  IF s \in 1 .. 4 /\ e = 9 /\ t - lastAt = WindowUnits THEN s + 1
  ELSE IF idle /\ e = 3 THEN 1 ELSE 0

(***************************************************************************)
(* The state after setup().  A run starts at power-up (millis() = 0), or   *)
(* WrapLead ticks before the millisecond counter rolls over, in the state  *)
(* an idle monitor is in then: no event, a record just written, the last   *)
(* window's samples still in the buffers.  now() returns seconds (of the   *)
(* RTC, or of uptime when the RTC is not set): a number that is not a      *)
(* reading of millis().                                                    *)
(***************************************************************************)
StartClocks == {0, ClockMod - WrapLead}
NowValues == {0, 3 * FFT_N + 2}
LastWindow(c) ==
  IF c = 0 THEN ZeroBuf
  ELSE [k \in Buf |-> analogMean((c - FFT_N + k + 1) % ClockMod)]

InitWith(m, clocks, nows, cards) ==
  /\ mode = m
  /\ cardOk \in cards
  /\ lag = 0
  /\ clock \in clocks
  /\ rtc \in nows
  /\ position = 0
  /\ capture = LastWindow(clock)
  /\ bfly_buff = LastWindow(clock)
  /\ spectrum = ZeroSpectrum
  /\ mon_thresh_exceeded = FALSE
  /\ mon_warn_state = FALSE
  /\ mon_alarm_state = FALSE
  /\ mon_lastreset_millis = rtc
  /\ mon_thresh_millis = 0
  /\ last_log_millis = clock
  /\ pc = "poll"
  /\ i = 0
  /\ toneState = "pip"
  /\ logfileOpen = FALSE
  /\ logtag = ""
  /\ logline = << >>
  /\ ticks = 0
  /\ accepted = << >>
  /\ dropped = 0
  /\ lastWrite = -1
  /\ lastRead = [by |-> "none", pos |-> 0]
  /\ win = [at |-> -1, exceeded |-> FALSE, elapsed |-> 0, maxChan |-> 0,
            before |-> "Idle"]
  /\ threshAt = 0
  /\ fromIdle = TRUE
  /\ dropAt = 0
  /\ scen = 0
  /\ lost = 0
  /\ overrun = FALSE
  /\ pending = 0
  /\ logAt = 0

(***************************************************************************)
(* ISR(TIMER1_COMPA_vect): one timer tick.  Time moves on by one unit      *)
(* whether or not the sample is stored.                                    *)
(***************************************************************************)
\* The timing of a run.  In a "prompt" run loop() keeps up with the sampler:
\* it starts on a full buffer before the next tick and at most MaxLag ticks
\* fall into one pass.  In a "long" run each pass is over before the next
\* tick.  In a "free" run every interleaving is allowed.  In a "live" run
\* too, and its timer never stops: such a run follows the time (millis(),
\* and the counts of ticks kept as history) for its first LiveTicks ticks
\* and holds it from then on, so that its states stay finitely many.
TickAllowed ==
  IF mode = "free" THEN ticks < FreeTicks
  ELSE IF mode = "live" THEN TRUE
  ELSE IF mode = "long"
    THEN ticks < LongTicks /\ pc = "poll" /\ position < FFT_N
  ELSE /\ ticks < MaxTicks
       /\ \/ pc = "poll" /\ position < FFT_N
          \/ pc # "poll" /\ lag < MaxLag
\* the run follows the time: always, but for a "live" run past LiveTicks
TimeRuns == mode # "live" \/ ticks < LiveTicks

ISR_TIMER1_COMPA ==
  /\ TickAllowed
  /\ lag' = IF pc = "poll" THEN 0 ELSE IF TimeRuns THEN lag + 1 ELSE lag
  /\ lost' = IF pc = "poll" THEN 0
            ELSE IF BufferFull(position) /\ TimeRuns THEN lost + 1 ELSE lost
  /\ ticks' = IF TimeRuns THEN ticks + 1 ELSE ticks
  /\ clock' = IF TimeRuns THEN (clock + 1) % ClockMod ELSE clock
  /\ IF BufferFull(position)
       THEN /\ dropped' = IF TimeRuns THEN dropped + 1 ELSE dropped
            /\ UNCHANGED <<position, capture, accepted, lastWrite>>
       ELSE /\ capture' = [capture EXCEPT ![position] = analogMean(clock')]
            /\ position' = (position + 1) % 256
            /\ accepted' = Append(accepted, analogMean(clock'))
            /\ lastWrite' = position
            /\ UNCHANGED dropped
  /\ pending' = IF position # FFT_N /\ position' = FFT_N
                 THEN pending + 1 ELSE pending
  /\ UNCHANGED <<bfly_buff, spectrum, mon_thresh_exceeded, mon_warn_state,
                 mon_alarm_state, mon_lastreset_millis, mon_thresh_millis,
                 last_log_millis, pc, i, rtc, toneState, logfileOpen, logtag,
                 logline, mode, lastRead, win, threshAt, fromIdle, dropAt,
                 scen,
                 cardOk, overrun, logAt>>

(***************************************************************************)
(* loop(), one step at a time; the interrupt may fire between any two.     *)
(***************************************************************************)
\* if (position == FFT_N) {
loop_poll ==
  /\ pc = "poll"
  /\ IF WindowReady(position)
       THEN pc' = "fft_input" /\ i' = 0
       ELSE UNCHANGED <<pc, i>>
  /\ UNCHANGED <<position, capture, bfly_buff, spectrum, mon_thresh_exceeded,
                 mon_warn_state, mon_alarm_state, mon_lastreset_millis,
                 mon_thresh_millis, last_log_millis, devs, hist>>

\* fft_input(capture,bfly_buff): one sample copied per step
loop_fft_input ==
  /\ pc = "fft_input"
  /\ bfly_buff' = [bfly_buff EXCEPT ![i] = FftInputSlot(capture, i)]
  /\ lastRead' = [by |-> "fft_input", pos |-> position]
  /\ IF i + 1 < FFT_N
       THEN i' = i + 1 /\ UNCHANGED pc
       ELSE i' = 0 /\ pc' = "fft_output"
  /\ UNCHANGED <<position, capture, spectrum, mon_thresh_exceeded,
                 mon_warn_state, mon_alarm_state, mon_lastreset_millis,
                 mon_thresh_millis, last_log_millis, devs, mode, ticks, lag,
                 accepted, dropped, lastWrite, win, threshAt, fromIdle, dropAt, scen,
                 lost, overrun, pending, logAt>>

\* fft_execute(bfly_buff); fft_output(bfly_buff,spectrum);
loop_fft_output ==
  /\ pc = "fft_output"
  /\ spectrum' \in SpectraIn(mode)
  /\ pc' = "reset"
  /\ UNCHANGED <<position, capture, bfly_buff, mon_thresh_exceeded,
                 mon_warn_state, mon_alarm_state, mon_lastreset_millis,
                 mon_thresh_millis, last_log_millis, i, devs, hist>>

\* position = 0;
loop_reset ==
  /\ pc = "reset"
  /\ position' = 0
  /\ accepted' = << >>
  /\ dropped' = 0
  /\ pc' = "alarm"
  /\ UNCHANGED <<capture, bfly_buff, spectrum, mon_thresh_exceeded,
                 mon_warn_state, mon_alarm_state, mon_lastreset_millis,
                 mon_thresh_millis, last_log_millis, i, devs, mode, ticks,
                 lag, lastWrite, lastRead, win, threshAt, fromIdle, dropAt, scen,
                 lost, overrun, pending, logAt>>


\* lines 257-294: the band's maximum and the decision on the alarm flags.
\* The interrupt touches only position and capture[], which these lines do
\* not use, and the reads of millis() in them are at most milliseconds
\* apart, far below a unit: the step reads the clock once.
loop_alarm ==
  /\ pc = "alarm"
  /\ LET maxChan == MaxChan(spectrum)
         t == clock
         idle == ~mon_thresh_exceeded /\ ~mon_warn_state /\ ~mon_alarm_state
     IN
       /\ IF Exceeds(maxChan)
            THEN LET started == NewEvent(mon_thresh_exceeded)
                     since == IF started THEN t ELSE mon_thresh_millis
                     elapsed == USub(t, since)
                 IN /\ mon_thresh_exceeded' = TRUE
                    /\ mon_thresh_millis' = since
                    /\ mon_alarm_state' = NextAlarmState(elapsed, mon_alarm_state)
                    /\ mon_warn_state' = NextWarnState(elapsed, mon_warn_state)
                    /\ threshAt' = IF started THEN ticks ELSE threshAt
                    /\ fromIdle' = IF started
                                     THEN ~mon_warn_state /\ ~mon_alarm_state
                                     ELSE fromIdle
                    /\ win' = [at |-> ticks, exceeded |-> TRUE,
                               elapsed |-> elapsed, maxChan |-> maxChan,
                               before |-> Level]
                    /\ UNCHANGED <<mon_lastreset_millis, toneState, dropAt>>
            ELSE /\ IF mon_thresh_exceeded
                      THEN /\ mon_lastreset_millis' = rtc
                           /\ mon_thresh_exceeded' = FALSE
                           /\ dropAt' = ticks
                           /\ UNCHANGED <<mon_warn_state, mon_alarm_state,
                                          toneState>>
                      ELSE IF ResetDue(t, mon_lastreset_millis)
                             THEN /\ mon_warn_state' = FALSE
                                  /\ mon_alarm_state' = FALSE
                                  /\ toneState' = "silent"
                                  /\ UNCHANGED <<mon_lastreset_millis,
                                                 mon_thresh_exceeded, dropAt>>
                             ELSE UNCHANGED <<mon_lastreset_millis,
                                              mon_thresh_exceeded, dropAt,
                                              mon_warn_state, mon_alarm_state,
                                              toneState>>
                 /\ win' = [at |-> ticks, exceeded |-> FALSE, elapsed |-> 0,
                            maxChan |-> maxChan, before |-> Level]
                 /\ UNCHANGED <<mon_thresh_millis, threshAt, fromIdle>>
       /\ scen' = ScenStep(scen, win.at, idle, maxChan, ticks)
  /\ pending' = pending - 1
  /\ pc' = "log"
  /\ UNCHANGED <<position, capture, bfly_buff, spectrum, last_log_millis, i,
                 clock, rtc, logfileOpen, logtag, logline, mode, ticks, lag,
                 accepted, dropped, lastWrite, lastRead,
                 cardOk, lost, overrun, logAt>>

\* lines 297-309: is a record due; open the file (which may fail) and write
\* the record's head
loop_log_open ==
  /\ pc = "log"
  /\ IF LogDue(mon_thresh_exceeded, clock, last_log_millis)
       THEN /\ \E ok \in (IF cardOk THEN BOOLEAN ELSE {FALSE}) :
                 /\ logfileOpen' = ok
                 /\ logtag' = IF ok THEN LogTag(mon_thresh_exceeded,
                                                mon_warn_state, mon_alarm_state)
                                    ELSE logtag
                 /\ logline' = IF ok THEN << >> ELSE logline
                 /\ pc' = IF ok THEN "log_raw" ELSE error_P("log_raw")
            /\ i' = 0
       ELSE /\ pc' = "tone"
            /\ UNCHANGED <<i, logfileOpen, logtag, logline>>
  /\ UNCHANGED <<position, capture, bfly_buff, spectrum, mon_thresh_exceeded,
                 mon_warn_state, mon_alarm_state, mon_lastreset_millis,
                 mon_thresh_millis, last_log_millis, clock, rtc, toneState,
                 hist,
                 cardOk>>

\* lines 316-319: logfile.print(capture[i]), one sample per step
loop_log_raw ==
  /\ pc = "log_raw"
  /\ lastRead' = [by |-> "log", pos |-> position]
  /\ logline' = IF logfileOpen THEN Append(logline, capture[i]) ELSE logline
  /\ IF i + 1 < FFT_N
       THEN i' = i + 1 /\ UNCHANGED pc
       ELSE i' = 0 /\ pc' = "log_close"
  /\ UNCHANGED <<position, capture, bfly_buff, spectrum, mon_thresh_exceeded,
                 mon_warn_state, mon_alarm_state, mon_lastreset_millis,
                 mon_thresh_millis, last_log_millis, clock, rtc, toneState,
                 logfileOpen, logtag, mode, ticks, lag, accepted, dropped,
                 lastWrite, win, threshAt, fromIdle, dropAt, scen,
                 cardOk, lost, overrun, pending, logAt>>

\* lines 320-322: logfile.close(); last_log_millis = millis();
loop_log_close ==
  /\ pc = "log_close"
  /\ logfileOpen' = FALSE
  /\ last_log_millis' = clock
  /\ logAt' = ticks
  /\ pc' = "tone"
  /\ UNCHANGED <<position, capture, bfly_buff, spectrum, mon_thresh_exceeded,
                 mon_warn_state, mon_alarm_state, mon_lastreset_millis,
                 mon_thresh_millis, i, clock, rtc, toneState, logtag, logline,
                 mode, ticks, lag, accepted, dropped, lastWrite, lastRead,
                 win, threshAt, fromIdle, dropAt, scen, lost, overrun, pending,
                 cardOk>>

\* lines 325-327: the pip and the continuous tone
loop_tone ==
  /\ pc = "tone"
  /\ toneState' = ToneAfter(mon_warn_state, mon_alarm_state, toneState)
  /\ pc' = "poll"
  /\ overrun' = (lag > FFT_N)
  /\ lag' = 0
  /\ lost' = 0
  /\ UNCHANGED <<position, capture, bfly_buff, spectrum, mon_thresh_exceeded,
                 mon_warn_state, mon_alarm_state, mon_lastreset_millis,
                 mon_thresh_millis, last_log_millis, i, clock, rtc,
                 logfileOpen, logtag, logline, mode, ticks, accepted, dropped,
                 lastWrite, lastRead, win, threshAt, fromIdle, dropAt, scen,
                 cardOk, pending, logAt>>

Next ==
  \/ ISR_TIMER1_COMPA
  \/ loop_poll
  \/ loop_fft_input
  \/ loop_fft_output
  \/ loop_reset
  \/ loop_alarm
  \/ loop_log_open
  \/ loop_log_raw
  \/ loop_log_close
  \/ loop_tone

\* loop() keeps up with the sampler; power-up and rollover runs
Init == InitWith("prompt", StartClocks, NowValues, {TRUE})
Spec == Init /\ [][Next]_vars

\* every interleaving of the interrupt with loop(), from power-up
InitFree == InitWith("free", {0}, {0}, BOOLEAN)
SpecFree == InitFree /\ [][Next]_vars

\* loop() runs between the ticks; long enough for an alarm, a drop and a
\* second exceedance
InitLong == InitWith("long", {0}, NowValues, {TRUE})
SpecLong == InitLong /\ [][Next]_vars

\* the timer never stops and every pass of loop() goes on to its end
loop ==
  \/ loop_poll
  \/ loop_fft_input
  \/ loop_fft_output
  \/ loop_reset
  \/ loop_alarm
  \/ loop_log_open
  \/ loop_log_raw
  \/ loop_log_close
  \/ loop_tone
InitLive == InitWith("live", {0}, {0}, {TRUE})
SpecLive ==
  InitLive /\ [][Next]_vars /\ WF_vars(ISR_TIMER1_COMPA) /\ WF_vars(loop)

(***************************************************************************)
(* Properties.                                                             *)
(***************************************************************************)
IdleFlags == ~mon_thresh_exceeded /\ ~mon_warn_state /\ ~mon_alarm_state
AcceptedBuf == [k \in Buf |-> accepted[k + 1]]
InTickOrder(buf) ==
  \A k \in Buf : k + 1 < FFT_N => buf[k + 1] = (buf[k] + 1) % ClockMod

\* C1: loop() reads elements of capture[] only while position = FFT_N; it
\* never reads capture[] after it has reset position to 0.
C1_ReaderExclusive == lastRead.by # "none" => lastRead.pos = FFT_N

\* C2: an interrupt that finds position = FFT_N changes neither position
\* nor any element of capture[], however often it fires before the reset.
C2_WriteWhenFullNoOp ==
  [][(ticks' # ticks /\ position = FFT_N)
       => (position' = position /\ capture' = capture)]_vars
C2_Witness ==
  /\ position = FFT_N
  /\ dropped >= 2
  /\ Len(accepted) = FFT_N
  /\ capture = AcceptedBuf

\* C3: 0 <= position <= FFT_N in every state, and every store of the
\* interrupt into capture[] uses an index below FFT_N.
C3_CursorBound ==
  /\ position \in 0 .. FFT_N
  /\ lastWrite \in -1 .. (FFT_N - 1)
C3_Witness ==
  /\ position = FFT_N
  /\ lastWrite = FFT_N - 1
  /\ dropped >= 1

\* C4: when loop() resets position, the transform's input is exactly the
\* FFT_N samples accepted since the previous reset, in tick order, the copy
\* is complete, and no tick was accepted between the buffer becoming full
\* and the reset.
C4_DrainOrder ==
  [][(position # 0 /\ position' = 0)
       => /\ pc = "reset"
          /\ Len(accepted) = FFT_N
          /\ bfly_buff = AcceptedBuf
          /\ capture = AcceptedBuf
          /\ InTickOrder(bfly_buff)]_vars
C4_Witness ==
  /\ pc = "alarm"
  /\ position = 0
  /\ ticks >= 2 * FFT_N + 2
  /\ win.at >= FFT_N
  /\ InTickOrder(bfly_buff)
  /\ bfly_buff = capture

\* C5: an event that starts from Idle is at PreAlarm in its first window, at
\* Warning in every window evaluated mon_warn_millis or more after the first
\* exceedance and at Alarm in every window evaluated mon_alarm_millis or
\* more after it; PreAlarm is never skipped.
C5_EscalationTiming ==
  (mon_thresh_exceeded /\ fromIdle)
    => /\ Level = LevelFor(win.at - threshAt)
       /\ (win.at = threshAt => Level = "PreAlarm")
C5_Witness ==
  /\ mon_thresh_exceeded
  /\ fromIdle
  /\ win.maxChan = mon_thresh
  /\ win.before = "Warning"
  /\ win.at - threshAt >= mon_alarm_millis
  /\ Level = "Alarm"

\* C6: after every exceeded window the level is the one the elapsed time
\* millis() - mon_thresh_millis gives, whatever the windows before it.
C6_LevelByElapsed ==
  mon_thresh_exceeded => Level = LevelFor(win.elapsed)

\* C7: a warning or alarm is cleared only when at least mon_reset_millis
\* have passed since the band fell below the threshold.
C7_ResetDebounce ==
  [][((mon_warn_state \/ mon_alarm_state)
        /\ ~mon_warn_state' /\ ~mon_alarm_state')
       => ticks - dropAt >= mon_reset_millis]_vars

\* C8 (as amended): band energies [3, 9, 9, 9] in windows 2000 ms apart,
\* from Idle, give Idle, PreAlarm, Warning, Warning; Alarm comes with the
\* next window of energy 9.
C8_Scenario ==
  /\ scen = 1 => Level = "Idle"
  /\ scen = 2 => Level = "PreAlarm"
  /\ scen = 3 => Level = "Warning"
  /\ scen = 4 => Level = "Warning"
  /\ scen = 5 => Level = "Alarm"
C8_Witness == scen = 5 /\ win.maxChan = 9 /\ win.before = "Warning"
\* C8 as stated: the fourth window gives Alarm.
C8_Original ==
  /\ scen = 1 => Level = "Idle"
  /\ scen = 2 => Level = "PreAlarm"
  /\ scen = 3 => Level = "Warning"
  /\ scen = 4 => Level = "Alarm"

\* C9: during an event the elapsed time millis() - mon_thresh_millis, taken
\* modulo the counter's range, is the true time since the first exceedance,
\* also after millis() has rolled over; the level of an event that started
\* from Idle is the one that true time gives.
C9_WrapSafe ==
  mon_thresh_exceeded
    => /\ USub(clock, mon_thresh_millis) = ticks - threshAt
       /\ win.elapsed = win.at - threshAt
       /\ fromIdle => Level = LevelFor(win.at - threshAt)
C9_Witness ==
  /\ mon_thresh_exceeded
  /\ fromIdle
  /\ clock < mon_thresh_millis
  /\ win.elapsed >= mon_warn_millis
  /\ Level = "Warning"

\* C10: while the three flags are false, a window below the threshold leaves
\* them false and starts no tone.
C10_IdleIdempotent ==
  [][(/\ IdleFlags
      /\ pc \in {"alarm", "log", "log_raw", "log_close", "tone"}
      /\ ~Exceeds(MaxChan(spectrum)))
       => (IdleFlags' /\ toneState' \in {toneState, "silent"})]_vars
C10_Witness ==
  /\ IdleFlags
  /\ pc = "poll"
  /\ ~win.exceeded
  /\ win.before = "Idle"
  /\ win.at >= 2 * FFT_N
  /\ threshAt = 0
  /\ toneState = "silent"

\* the steps of a pass of loop() that come before position = 0
BeforeReset == pc \in {"fft_input", "fft_output", "reset"}

\* C11 (as amended): when more than FFT_N ticks fall into the processing of
\* one window, the ticks that find the buffer full are dropped, and the next
\* window still holds exactly FFT_N samples when it is drained: every tick of
\* a pass is either dropped or accepted into the next window.
C11_DropUnderOverload ==
  /\ pc = "reset" => (position = FFT_N /\ Len(accepted) = FFT_N)
  /\ pc # "poll" => lag = lost + (IF BeforeReset THEN 0 ELSE Len(accepted))
  /\ (pc # "poll" /\ lag > FFT_N) => lost >= 1
C11_Witness ==
  /\ pc = "reset"
  /\ overrun
  /\ Len(accepted) = FFT_N
  /\ dropped >= 1
\* C11 as stated: after an overrun the next window is drained with fewer
\* than FFT_N samples.
C11_Original == (pc = "reset" /\ overrun) => Len(accepted) < FFT_N

\* C12: with the timer ticking for ever and every pass of loop() going on to
\* its end, the buffer is full again and again, and every full buffer is
\* drained and position reset to 0, however many ticks are dropped meanwhile.
C12_HandOffLive ==
  /\ []<>(position = FFT_N)
  /\ (position = FFT_N) ~> (position = 0)
C12_Witness ==
  /\ pc = "alarm"
  /\ position = 0
  /\ lost >= 2
  /\ Len(accepted) = 0

\* the window just evaluated changed the alarm level: an event began, the
\* level rose, the band fell below the threshold, or the flags were cleared
LevelChanged ==
  /\ win.at >= 0
  /\ (win.before # Level \/ dropAt = win.at \/ threshAt = win.at)

\* C13: every window in which the alarm level changes writes a record in
\* that same window: when loop() comes to decide on the record, one is due.
C13_RecordOnChange ==
  (pc = "log" /\ LevelChanged)
    => LogDue(mon_thresh_exceeded, clock, last_log_millis)

\* a step of loop() in the logging part of a pass
LogStep ==
  /\ pc \in {"log", "log_raw", "log_close"}
  /\ (pc' # pc \/ i' # i)
\* where that step leads, whatever the card and the file do
AfterLogStep ==
  IF pc = "log"
    THEN (IF LogDue(mon_thresh_exceeded, clock, last_log_millis)
            THEN "log_raw" ELSE "tone")
  ELSE IF pc = "log_raw"
    THEN (IF i + 1 < FFT_N THEN "log_raw" ELSE "log_close")
  ELSE "tone"

\* C14: a failure of the card's initialisation or of a log-file open changes
\* neither the alarm flags and their timestamps nor the capture buffer and
\* its cursor, and loop() goes on from the logging exactly as after a
\* success: no failure path halts it.
C14_StorageFailSoft ==
  [][LogStep
       => /\ UNCHANGED <<mon_thresh_exceeded, mon_warn_state, mon_alarm_state,
                         mon_thresh_millis, mon_lastreset_millis, position,
                         capture, spectrum, toneState>>
          /\ pc' = AfterLogStep
          /\ (pc = "log_close" => last_log_millis' = clock)]_vars
C14_Witness ==
  /\ ~cardOk
  /\ pc = "tone"
  /\ win.before = "PreAlarm"
  /\ win.exceeded
  /\ logtag = ""
  /\ position > 0

\* C15: at the end of every processed window the continuous tone sounds if
\* and only if mon_alarm_state is true; the buzzer is set to a pip in a
\* window only if mon_warn_state is true; with both flags false the window
\* starts no tone and no continuous tone is left sounding.
C15_ToneMatchesLevel ==
  /\ [](pc = "poll" => ((toneState = "continuous") <=> mon_alarm_state))
  /\ [][(pc = "tone" /\ pc' = "poll")
          => /\ mon_alarm_state => toneState' = "continuous"
             /\ (toneState' = "pip" /\ toneState # "pip") => mon_warn_state
             /\ (~mon_warn_state /\ ~mon_alarm_state)
                  => (toneState' = toneState /\ toneState' # "continuous")]_vars
C15_Witness ==
  /\ pc = "poll"
  /\ win.before = "Alarm"
  /\ IdleFlags
  /\ toneState = "silent"

\* the step of loop() that evaluates a window
Evaluates == pc = "alarm" /\ pc' = "log"

\* C16: mon_alarm_state (mon_warn_state) goes from false to true only in an
\* exceeded window with at least mon_alarm_millis (mon_warn_millis) elapsed
\* since mon_thresh_millis, every window since that stamp having been
\* exceeded; a window below the threshold ends the event, and the next
\* exceeded window measures from zero.
C16_SustainedExceedance ==
  /\ [](~win.exceeded => ~mon_thresh_exceeded)
  /\ [](mon_thresh_exceeded
          => /\ win.exceeded
             /\ dropAt <= threshAt
             /\ win.elapsed = win.at - threshAt)
  /\ [][Evaluates
          => /\ (~mon_alarm_state /\ mon_alarm_state')
                  => (win'.exceeded /\ win'.elapsed >= mon_alarm_millis)
             /\ (~mon_warn_state /\ mon_warn_state')
                  => (win'.exceeded /\ win'.elapsed >= mon_warn_millis)
             /\ (~mon_thresh_exceeded /\ win'.exceeded)
                  => /\ win'.elapsed = 0
                     /\ mon_thresh_millis' = clock
                     /\ threshAt' = ticks
                     /\ mon_alarm_state' = mon_alarm_state
                     /\ mon_warn_state' = mon_warn_state]_vars
\* an alarm raised by an event that began after a window below the threshold
\* had ended an earlier one
C16_Witness ==
  /\ mon_alarm_state
  /\ win.before = "Warning"
  /\ win.elapsed >= mon_alarm_millis
  /\ dropAt > 0
  /\ dropAt < threshAt

\* the windows filled and not yet evaluated: the one in the buffer and
\* the one drained whose evaluation is still to come
Outstanding ==
  (IF position = FFT_N THEN 1 ELSE 0) + (IF pc = "alarm" THEN 1 ELSE 0)

\* C17: the timer interrupt changes none of the alarm flags, their
\* timestamps, last_log_millis and spectrum[]; loop() changes nothing when it
\* finds position # FFT_N; the alarm rule is evaluated once for each fill of
\* the buffer: the fills not evaluated yet are the windows still outstanding.
C17_LoopOnlyOncePerWindow ==
  /\ [](pending = Outstanding)
  /\ [][/\ ticks' # ticks
             => UNCHANGED <<mon_thresh_exceeded, mon_warn_state,
                            mon_alarm_state, mon_thresh_millis,
                            mon_lastreset_millis, last_log_millis, spectrum,
                            win, pc>>
        /\ (ticks' = ticks /\ pc = "poll" /\ position # FFT_N)
             => UNCHANGED vars
        /\ win' # win => (Evaluates /\ pending' = pending - 1)]_vars
C17_Witness ==
  /\ pending = 2
  /\ pc = "alarm"
  /\ position = FFT_N
  /\ dropped >= 1

\* the largest bin of the monitored band, both ends included
BandMax(s) ==
  CHOOSE v \in {s[k] : k \in mon_freq_ch_min .. mon_freq_ch_max} :
    \A k \in mon_freq_ch_min .. mon_freq_ch_max : s[k] <= v

\* C18: the value compared with the threshold is the maximum of the band's
\* bins, and the window counts as exceeded if and only if that maximum is
\* mon_thresh or more, also for bins of 32768 and above.
C18_BandEnergy ==
  (win.at >= 0 /\ pc \in {"log", "log_raw", "log_close", "tone"})
    => /\ win.maxChan = BandMax(spectrum)
       /\ win.exceeded <=> (BandMax(spectrum) >= mon_thresh)

\* C19: while the band is not exceeded a record is written only when more
\* than log_millis have passed since the previous record, also when
\* last_log_millis + log_millis overflows the counter or millis() rolls over.
C19_LogThrottle ==
  (pc \in {"log_raw", "log_close"} /\ ~mon_thresh_exceeded)
    => ticks - logAt > log_millis

\* C20: mon_warn_state and mon_alarm_state are never both true.
C20_WarnAlarmExclusive == ~(mon_warn_state /\ mon_alarm_state)

\* the window the transform was given, as the record would list it
TransformedWindow == [k \in 1 .. FFT_N |-> bfly_buff[k - 1]]

\* C21: in every record the FFT_N raw samples after "RAW:" are the samples
\* of the window the record's spectrum was computed from, under every
\* interleaving of the timer interrupt with the logging.
C21_RecordConsistent ==
  (pc = "log_close" /\ logfileOpen) => logline = TransformedWindow

=============================================================================
